---- MODULE Spec2Model ----
(***************************************************************************)
(* Model of src/catch/113.py: a one-shot pipeline that downloads a PDF,    *)
(* extracts its table rows page by page (download_and_parse_pdf), turns    *)
(* the rows into records of 7 fields (clean_and_structure_data) and writes *)
(* them as JSON (save_to_json), driven by the __main__ block.              *)
(*                                                                         *)
(* Python values are tagged records: None, Str(s), PyInt(v),               *)
(* PyFloat(m, e), List(v).  A Python str is a sequence of characters, each *)
(* character a TLA+ string token; the CJK characters of the source are     *)
(* written in pinyin ("xiao","ming" is the text of the marker on line 84). *)
(* A float is the exact decimal m * 10^e in canonical form (m not          *)
(* divisible by 10, or m = e = 0): the rounding of a binary double is not  *)
(* modelled.                                                               *)
(***************************************************************************)
EXTENDS Integers, Sequences, FiniteSets, TLC

VARIABLES
    pc,              \* position of the run (which statement of __main__ is next)
    response,        \* outcome of requests.get / raise_for_status (line 16-17)
    pdf,             \* the document served: openable flag and its pages
    page_num,        \* index of the page the loop of line 29 is at (0-based)
    all_rows,        \* line 27
    raw_table,       \* line 141
    structured_data, \* line 144
    file,            \* state of the output file 113.json on disk
    error,           \* which of the three errors has occurred, if any
    log              \* the stages started so far, in order

vars == <<pc, response, pdf, page_num, all_rows, raw_table, structured_data,
          file, error, log>>

-----------------------------------------------------------------------------
(* Python values *)

None == [t |-> "None"]
Str(s) == [t |-> "str", s |-> s]
PyInt(v) == [t |-> "int", v |-> v]
List(v) == [t |-> "list", v |-> v]

RECURSIVE Canon(_, _)
Canon(m, e) ==
    IF m = 0 THEN <<0, 0>>
    ELSE IF m % 10 = 0 THEN Canon(m \div 10, e + 1)
    ELSE <<m, e>>

PyFloat(m, e) == [t |-> "float", m |-> Canon(m, e)[1], e |-> Canon(m, e)[2]]

\* Python truth value of an object (bool(x)).
truthy(x) ==
    CASE x.t = "None" -> FALSE
      [] x.t = "str" -> x.s # <<>>
      [] x.t = "int" -> x.v # 0
      [] x.t = "float" -> x.m # 0
      [] x.t = "list" -> x.v # <<>>

-----------------------------------------------------------------------------
(* str methods used on lines 83-113 *)

Whitespace == {" ", "\n", "\t", "\r"}

RECURSIVE lstrip(_)
lstrip(s) ==
    IF s # <<>> /\ Head(s) \in Whitespace THEN lstrip(Tail(s)) ELSE s

RECURSIVE rstrip(_)
rstrip(s) ==
    IF s # <<>> /\ s[Len(s)] \in Whitespace
    THEN rstrip(SubSeq(s, 1, Len(s) - 1))
    ELSE s

\* s.strip()
strip(s) == rstrip(lstrip(s))

\* s.replace(old, new) for one-character old and new
replace(s, old, new) ==
    [i \in 1..Len(s) |-> IF s[i] = old THEN new ELSE s[i]]

\* sub in s
contains(sub, s) ==
    \E i \in 0..(Len(s) - Len(sub)) : SubSeq(s, i + 1, i + Len(sub)) = sub

-----------------------------------------------------------------------------
(* int(str) and float(str) of lines 106, 110, 113 *)

Digits == {"0", "1", "2", "3", "4", "5", "6", "7", "8", "9"}

DigitVal(c) ==
    CASE c = "0" -> 0 [] c = "1" -> 1 [] c = "2" -> 2 [] c = "3" -> 3
      [] c = "4" -> 4 [] c = "5" -> 5 [] c = "6" -> 6 [] c = "7" -> 7
      [] c = "8" -> 8 [] c = "9" -> 9

\* digit ("_"? digit)*
IsDigitPart(s) ==
    /\ s # <<>>
    /\ s[1] \in Digits
    /\ s[Len(s)] \in Digits
    /\ \A i \in 1..Len(s) : s[i] \in Digits \cup {"_"}
    /\ \A i \in 1..(Len(s) - 1) : ~(s[i] = "_" /\ s[i + 1] = "_")

RECURSIVE DigitPartValue(_, _)
DigitPartValue(s, acc) ==
    IF s = <<>> THEN acc
    ELSE IF Head(s) = "_" THEN DigitPartValue(Tail(s), acc)
    ELSE DigitPartValue(Tail(s), 10 * acc + DigitVal(Head(s)))

NoUnderscore(s) == SelectSeq(s, LAMBDA c : c # "_")

Signed(s) == s # <<>> /\ s[1] \in {"+", "-"}
Unsign(s) == IF Signed(s) THEN Tail(s) ELSE s
SignOf(s) == IF s # <<>> /\ s[1] = "-" THEN -1 ELSE 1

\* int(s) does not raise ValueError
IsIntLiteral(s) == IsDigitPart(Unsign(strip(s)))

\* the value of int(s)
IntValue(s) == SignOf(strip(s)) * DigitPartValue(Unsign(strip(s)), 0)

\* index of the first c in s, 0 if there is none
IndexOf(s, cs) ==
    IF \E i \in 1..Len(s) : s[i] \in cs
    THEN CHOOSE i \in 1..Len(s) : s[i] \in cs /\ \A j \in 1..(i - 1) : s[j] \notin cs
    ELSE 0

\* s up to its exponent, and the exponent's text (<<>> if there is none)
Mantissa(s) ==
    IF IndexOf(s, {"e", "E"}) = 0 THEN s ELSE SubSeq(s, 1, IndexOf(s, {"e", "E"}) - 1)
Exponent(s) ==
    IF IndexOf(s, {"e", "E"}) = 0 THEN <<>>
    ELSE SubSeq(s, IndexOf(s, {"e", "E"}) + 1, Len(s))
IntPart(s) ==
    IF IndexOf(s, {"."}) = 0 THEN s ELSE SubSeq(s, 1, IndexOf(s, {"."}) - 1)
FracPart(s) ==
    IF IndexOf(s, {"."}) = 0 THEN <<>> ELSE SubSeq(s, IndexOf(s, {"."}) + 1, Len(s))

\* [digitpart] "." [digitpart] with a digit on one side, or digitpart alone
IsPointFloat(s) ==
    /\ IntPart(s) = <<>> \/ IsDigitPart(IntPart(s))
    /\ FracPart(s) = <<>> \/ IsDigitPart(FracPart(s))
    /\ IntPart(s) # <<>> \/ FracPart(s) # <<>>

\* float(s) does not raise ValueError, for s that is not inf, infinity or nan
IsFloatLiteral(s) ==
    LET u == Unsign(strip(s)) IN
    /\ IsPointFloat(Mantissa(u))
    /\ IndexOf(u, {"e", "E"}) # 0 => IsDigitPart(Unsign(Exponent(u)))

\* the value of float(s)
FloatValue(s) ==
    LET u == Unsign(strip(s))
        m == Mantissa(u)
        x == Exponent(u)
        digits == NoUnderscore(IntPart(m)) \o NoUnderscore(FracPart(m))
        scale == Len(NoUnderscore(FracPart(m)))
        exp == IF x = <<>> THEN 0 ELSE SignOf(x) * DigitPartValue(Unsign(x), 0)
    IN  PyFloat(SignOf(strip(s)) * DigitPartValue(digits, 0), exp - scale)

-----------------------------------------------------------------------------
(* clean_and_structure_data, lines 61-124 *)

\* line 71-74; the names in pinyin
selected_columns ==
    << "xizudaima", "xiaoming", "xizuming", "caijijijiaquan",
       "luqurenshu(hanwaijia)", "putongshengluqufenshu",
       "putongshengtongfencanzhuo" >>

\* the literals of lines 84 and 99
MarkerCode == <<"xi", "zu", "dai", "ma">>
MarkerSchool == <<"xiao", "ming">>
Placeholder == <<"-", "-", "-", "-", "-">>

\* as strip_replace, the newlines left in
strip_replace_keeps_newlines(c) ==
    IF truthy(c) /\ truthy(Str(strip(c.s))) THEN Str(strip(c.s)) ELSE None

\* line 96: strip and replace the newlines of a present, non-blank cell
strip_replace(c) ==
    IF truthy(c) /\ truthy(Str(strip(c.s)))
    THEN Str(replace(strip(c.s), "\n", " "))
    ELSE None

\* as drop_placeholder, only a cell that is the five hyphens and no more
drop_placeholder_exact(v) ==
    IF truthy(v) /\ v.s = Placeholder THEN None ELSE v

\* line 99-100
drop_placeholder(v) ==
    IF truthy(v) /\ contains(Placeholder, v.s) THEN None ELSE v

\* as coerce, the admitted count always read with int()
coerce_count_int_only(v, col_name) ==
    IF col_name = "luqurenshu(hanwaijia)"
    THEN IF IsIntLiteral(v.s) THEN PyInt(IntValue(v.s)) ELSE v
    ELSE IF contains(<<".">>, v.s)
         THEN IF IsFloatLiteral(v.s) THEN FloatValue(v.s) ELSE v
         ELSE IF IsIntLiteral(v.s) THEN PyInt(IntValue(v.s)) ELSE v

\* line 104-115: the try block, ValueError caught and the string kept
coerce(v, col_name) ==
    IF contains(<<".">>, v.s)
    THEN IF IsFloatLiteral(v.s) THEN FloatValue(v.s) ELSE v
    ELSE IF col_name = "luqurenshu(hanwaijia)"
         THEN IF IsIntLiteral(v.s) THEN PyInt(IntValue(v.s)) ELSE v
         ELSE IF contains(<<".">>, v.s)
              THEN IF IsFloatLiteral(v.s) THEN FloatValue(v.s) ELSE v
              ELSE IF IsIntLiteral(v.s) THEN PyInt(IntValue(v.s)) ELSE v

\* line 103: which fields are coerced
numeric_columns == {"luqurenshu(hanwaijia)", "putongshengluqufenshu"}

\* line 96-117: the value stored for cell c under col_name
field_value(c, col_name) ==
    LET v == drop_placeholder(strip_replace(c)) IN
    IF truthy(v) /\ col_name \in numeric_columns THEN coerce(v, col_name) ELSE v

\* any(row), line 80
any(row) == \E i \in 1..Len(row) : truthy(row[i])

\* as is_header, only the code marker looked for
is_header_code_only(row) ==
    LET first_cell == IF truthy(row[1]) THEN row[1].s ELSE <<>> IN
    contains(MarkerCode, first_cell)

\* line 83-84: the row's first cell holds a header marker
is_header(row) ==
    LET first_cell == IF truthy(row[1]) THEN row[1].s ELSE <<>> IN
    contains(MarkerCode, first_cell) \/ contains(MarkerSchool, first_cell)

\* line 93-117
cleaned_row(row) ==
    [col_name \in {selected_columns[i] : i \in 1..7} |->
        LET i == CHOOSE i \in 1..7 : selected_columns[i] = col_name
        IN  field_value(row[i], col_name)]

\* how many cells a row needs, line 88
MinCells == 7

\* as loop_body, without the test of the code on line 120
loop_body_keeps_codeless(data_list, row) ==
    IF row = <<>> \/ ~any(row) THEN data_list
    ELSE IF is_header(row) THEN data_list
    ELSE IF Len(row) < MinCells THEN data_list
    ELSE Append(data_list, cleaned_row(row))

\* as loop_body, the Record put first instead of last
loop_body_prepends(data_list, row) ==
    IF row = <<>> \/ ~any(row) THEN data_list
    ELSE IF is_header(row) THEN data_list
    ELSE IF Len(row) < MinCells THEN data_list
    ELSE LET record == cleaned_row(row) IN
         IF truthy(record["xizudaima"]) THEN <<record>> \o data_list ELSE data_list

\* line 79-121: one pass of the loop body over row
loop_body(data_list, row) ==
    IF row = <<>> \/ ~any(row) THEN data_list
    ELSE IF is_header(row) THEN data_list
    ELSE IF Len(row) < MinCells THEN data_list
    ELSE LET record == cleaned_row(row) IN
         IF truthy(record["xizudaima"]) THEN Append(data_list, record) ELSE data_list

RECURSIVE for_rows(_, _)
for_rows(data_list, rows) ==
    IF rows = <<>> THEN data_list
    ELSE for_rows(loop_body(data_list, Head(rows)), Tail(rows))

\* as rows_to_scan, the first row scanned too
rows_to_scan_all(rows) == rows

\* line 78: rows[1:]
rows_to_scan(rows) == Tail(rows)

\* line 61-124; rows is None or a List
clean_and_structure_data(rows) ==
    IF ~truthy(rows) THEN <<>>
    ELSE for_rows(<<>>, rows_to_scan(rows.v))

-----------------------------------------------------------------------------
(* The inputs: cells, rows, tables, pages and documents *)

\* longest cell text enumerated in full, most rows of a table, most pages
MaxLen == 4
MaxRows == 3
MaxPages == 3

Alphabet == {"1", ".", "-", " ", "\n"}

Texts == UNION {[1..n -> Alphabet] : n \in 0..MaxLen}

\* "tai bei \n da xue", "120", "450.5", "tong fen can zhuo di 3 lei", ...
TaibeiDaxue == <<"tai", "bei", " ", "\n", "da", "xue">>
ExampleTexts ==
    { TaibeiDaxue,
      <<"1", "2", "0">>, <<"4", "5", "0", ".", "5">>,
      <<"tong", "fen", "can", "zhuo", "di", "3", "lei">>,
      Placeholder, <<"a">> \o Placeholder \o <<"1">>, <<" ">> \o Placeholder,
      <<"-", "-", "\n", "-", "-", "-">>,
      <<"+", "7">>, <<"1", "_", "0">>, <<"1", "_", "_", "0">>, <<"_", "1">>,
      <<"1", ".", "5", "e", "2">>, <<"1", "e", "2">>, <<".", "5", "0">>,
      <<"3", ".">>, <<"1", ".", "2", ".", "3">>, <<"a", ".", "1">>, <<"1", "a">>, <<"\t", "4", "0", "\r", "\n">>,
      <<"xiao", "ming">>, MarkerCode, <<"xi", "zu", "\n", "dai", "ma">> }

Cells == {None} \cup {Str(s) : s \in Texts \cup ExampleTexts}

\* a well-formed data row of 7 cells with code k
DataRow(k) ==
    << Str(<<"0", "0", k>>), Str(<<"tai", "bei", "da", "xue">>), Str(<<"a", k>>),
       Str(<<"a">>), Str(<<"1", "2", k>>), Str(<<"4", "5", k, ".", "5">>),
       Str(Placeholder) >>

\* the same with a further cell, a wrapped name, a padded count, a text score
WideRow(k) ==
    << Str(<<"0", "0", k>>), Str(TaibeiDaxue), Str(<<"xiao", "ming">>), None,
       Str(<<" ", "3", k, " ">>),
       Str(<<"tong", "fen", "can", "zhuo", "di", "3", "lei">>),
       Str(<<>>), Str(<<"a">>) >>

\* DataRow("9") with cell c at field position i (0-based)
RowWith(c, i) == [DataRow("9") EXCEPT ![i + 1] = c]

HeaderRow ==
    << Str(MarkerCode), Str(MarkerSchool), Str(<<"xi", "zu", "ming">>), Str(<<"a">>),
       Str(<<"a">>), Str(<<"a">>), Str(<<"a">>) >>
\* a header whose first cell holds the school marker
HeaderSchoolFirst == [HeaderRow EXCEPT ![1] = Str(<<"a">> \o MarkerSchool \o <<"a">>)]
\* a header whose first cell was extracted with a line break in it
HeaderWrapped == [HeaderRow EXCEPT ![1] = Str(<<"xi", "zu", "\n", "dai", "ma">>)]
\* a header whose first cell is empty
HeaderNoFirst == [HeaderRow EXCEPT ![1] = None]

BlankRow == [i \in 1..7 |-> None]
BlankTextRow == [i \in 1..7 |-> Str(<<>>)]
ShortRow == SubSeq(DataRow("6"), 1, 6)
NoCodeRow == [DataRow("7") EXCEPT ![1] = None]
SpaceCodeRow == [DataRow("7") EXCEPT ![1] = Str(<<" ", "\n">>)]
DashCodeRow == [DataRow("7") EXCEPT ![1] = Str(<<"0">> \o Placeholder)]

Rows ==
    { DataRow("1"), WideRow("3"), HeaderRow, HeaderSchoolFirst, HeaderWrapped,
      BlankRow, <<>>, ShortRow, NoCodeRow, DashCodeRow }

OddRows ==
    { DataRow("2"), HeaderNoFirst, BlankTextRow, SpaceCodeRow,
      <<Str(<<"0", "0", "8">>)>>, <<None>>, SubSeq(BlankRow, 1, 3),
      [WideRow("4") EXCEPT ![1] = Str(<<"0">> \o MarkerSchool)] }

\* the tables the Normalizer is run on: every short sequence of Rows, a
\* header and one of OddRows, and a header and one data row with every cell
\* at every field position
Tables ==
    UNION {[1..n -> Rows] : n \in 1..MaxRows}
    \cup {<<HeaderRow, r>> : r \in OddRows}
    \cup {<<HeaderRow, RowWith(c, i)>> : c \in Cells, i \in 0..6}

\* what page.extract_table returns or does under one strategy
Raises == [t |-> "raise"]

FirstPageTable ==
    <<HeaderRow, DataRow("1"), WideRow("2"), DataRow("3"), DataRow("4"), WideRow("5")>>
NextPageTable(header) == <<header, DataRow("6"), WideRow("7"), DataRow("8")>>
JunkTable == <<HeaderRow, BlankRow, ShortRow, NoCodeRow, HeaderSchoolFirst>>

Pages ==
    { [lines |-> List(FirstPageTable), text |-> None],
      [lines |-> None, text |-> List(NextPageTable(HeaderRow))],
      [lines |-> List(NextPageTable(HeaderSchoolFirst)), text |-> None],
      [lines |-> List(NextPageTable(HeaderWrapped)), text |-> None],
      [lines |-> List(JunkTable), text |-> None],
      [lines |-> None, text |-> None],
      [lines |-> List(<<>>), text |-> List(JunkTable)],
      [lines |-> Raises, text |-> None],
      [lines |-> None, text |-> Raises] }

\* the documents served: one that pdfplumber.open cannot read, and every
\* short sequence of Pages
Documents ==
    {[openable |-> FALSE, pages |-> <<>>]}
    \cup { [openable |-> TRUE, pages |-> ps] :
              ps \in UNION {[1..n -> Pages] : n \in 0..MaxPages} }

-----------------------------------------------------------------------------
(* download_and_parse_pdf, lines 12-59 *)

\* line 16-17: what requests.get and raise_for_status can do
Responses == {"ok", "timeout", "connection_error", "http_error"}

\* line 32-42: the table of a page, the text strategy tried when the lines
\* strategy returns None; Raises when the strategy called raises
page_table(page) ==
    IF page.lines = None THEN page.text ELSE page.lines

\* line 14-21
Download ==
    /\ pc = "start"
    /\ \E r \in Responses :
        /\ response' = r
        /\ IF r = "ok"
           THEN /\ pc' = "parse"
                /\ UNCHANGED <<raw_table, error>>
           ELSE /\ pc' = "check_raw"
                /\ raw_table' = None
                /\ error' = "NetworkError"
    /\ log' = Append(log, "fetch")
    /\ UNCHANGED <<pdf, page_num, all_rows, structured_data, file>>

\* line 24-27, and 57-59 when pdfplumber.open raises
OpenPdf ==
    /\ pc = "parse"
    /\ IF pdf.openable
       THEN /\ pc' = "pages"
            /\ all_rows' = <<>>
            /\ page_num' = 0
            /\ UNCHANGED <<raw_table, error>>
       ELSE /\ pc' = "check_raw"
            /\ raw_table' = None
            /\ error' = "ParseError"
            /\ UNCHANGED <<all_rows, page_num>>
    /\ log' = Append(log, "extract")
    /\ UNCHANGED <<response, pdf, structured_data, file>>

\* as ExtractPage, the rows of the page put in the place of those gathered
ExtractPageOverwrites ==
    /\ pc = "pages"
    /\ page_num < Len(pdf.pages)
    /\ LET table == page_table(pdf.pages[page_num + 1]) IN
       IF table = Raises
       THEN /\ pc' = "check_raw"
            /\ raw_table' = None
            /\ error' = "ParseError"
            /\ UNCHANGED <<all_rows, page_num>>
       ELSE /\ all_rows' = IF truthy(table) THEN table.v ELSE all_rows
            /\ page_num' = page_num + 1
            /\ UNCHANGED <<pc, raw_table, error>>
    /\ UNCHANGED <<response, pdf, structured_data, file, log>>

\* line 29-48: one page of the loop, and 57-59 when extract_table raises
ExtractPage ==
    /\ pc = "pages"
    /\ page_num < Len(pdf.pages)
    /\ LET table == page_table(pdf.pages[page_num + 1]) IN
       IF table = Raises
       THEN /\ pc' = "check_raw"
            /\ raw_table' = None
            /\ error' = "ParseError"
            /\ UNCHANGED <<all_rows, page_num>>
       ELSE /\ all_rows' = IF truthy(table) THEN all_rows \o table.v ELSE all_rows
            /\ page_num' = page_num + 1
            /\ UNCHANGED <<pc, raw_table, error>>
    /\ UNCHANGED <<response, pdf, structured_data, file, log>>

\* line 50-55: after the last page
EndPages ==
    /\ pc = "pages"
    /\ page_num = Len(pdf.pages)
    /\ IF all_rows = <<>>
       THEN raw_table' = None /\ error' = "ParseError"
       ELSE raw_table' = List(all_rows) /\ UNCHANGED error
    /\ pc' = "check_raw"
    /\ UNCHANGED <<response, pdf, page_num, all_rows, structured_data, file, log>>

-----------------------------------------------------------------------------
(* __main__, lines 139-158, and save_to_json, lines 126-136 *)

\* line 143-144
Normalize ==
    /\ pc = "check_raw"
    /\ truthy(raw_table)
    /\ structured_data' = clean_and_structure_data(raw_table)
    /\ log' = Append(log, "normalize")
    /\ pc' = "check_structured"
    /\ UNCHANGED <<response, pdf, page_num, all_rows, raw_table, file, error>>

\* line 157-158
NoRawTable ==
    /\ pc = "check_raw"
    /\ ~truthy(raw_table)
    /\ pc' = "done"
    /\ UNCHANGED <<response, pdf, page_num, all_rows, raw_table, structured_data,
                   file, error, log>>

\* what open(filename, 'w') and json.dump can do, line 129-130
WriteOutcomes == {"ok", "open_fails", "dump_fails"}

\* line 145-146 and 126-136: save_to_json catches the exception (line 135)
\* and returns to line 147
Save ==
    /\ pc = "check_structured"
    /\ structured_data # <<>>
    /\ \E outcome \in WriteOutcomes :
        /\ file' = CASE outcome = "ok" -> "complete"
                     [] outcome = "open_fails" -> file
                     [] outcome = "dump_fails" -> "partial"
        /\ error' = IF outcome = "ok" THEN error ELSE "IOError"
        /\ pc' = "report"
    /\ log' = Append(log, "write")
    /\ UNCHANGED <<response, pdf, page_num, all_rows, raw_table, structured_data>>

\* line 147-154: the sample of the first records and the list of fields
Report ==
    /\ pc = "report"
    /\ log' = Append(log, "report")
    /\ pc' = "done"
    /\ UNCHANGED <<response, pdf, page_num, all_rows, raw_table, structured_data,
                   file, error>>

\* as NoRecords, the Writer called on the empty list
NoRecordsWrites ==
    /\ pc = "check_structured"
    /\ structured_data = <<>>
    /\ file' = "complete"
    /\ log' = Append(log, "write")
    /\ pc' = "report"
    /\ UNCHANGED <<response, pdf, page_num, all_rows, raw_table, structured_data, error>>

\* line 155-156
NoRecords ==
    /\ pc = "check_structured"
    /\ structured_data = <<>>
    /\ pc' = "done"
    /\ UNCHANGED <<response, pdf, page_num, all_rows, raw_table, structured_data,
                   file, error, log>>

-----------------------------------------------------------------------------
(* The run of the program on every document *)

Init ==
    /\ pc = "start"
    /\ response = "none"
    /\ pdf \in Documents
    /\ page_num = 0
    /\ all_rows = <<>>
    /\ raw_table = None
    /\ structured_data = <<>>
    /\ file = "absent"
    /\ error = "none"
    /\ log = <<>>

Next ==
    \/ Download
    \/ OpenPdf
    \/ ExtractPage
    \/ EndPages
    \/ Normalize
    \/ NoRawTable
    \/ Save
    \/ Report
    \/ NoRecords

Spec == Init /\ [][Next]_vars

(* The run from line 143 on, once download_and_parse_pdf has returned one  *)
(* of Tables from a document of one page                                   *)

InitNorm ==
    /\ pc = "check_raw"
    /\ response = "ok"
    /\ \E rows \in Tables :
        /\ pdf = [openable |-> TRUE, pages |-> <<[lines |-> List(rows), text |-> None]>>]
        /\ all_rows = rows
        /\ raw_table = List(rows)
    /\ page_num = 1
    /\ structured_data = <<>>
    /\ file = "absent"
    /\ error = "none"
    /\ log = <<"fetch", "extract">>

NextNorm == Normalize

SpecNorm == InitNorm /\ [][NextNorm]_vars

-----------------------------------------------------------------------------
(* What the claims speak of *)

\* the Normalizer has returned
Returned == pc = "check_structured"

Field(i) == selected_columns[i]

IsText(c) == c.t = "str"
BlankCell(c) == ~IsText(c) \/ \A p \in 1..Len(c.s) : c.s[p] \in Whitespace
HasPlaceholder(c) == IsText(c) /\ contains(Placeholder, c.s)
HasMarker(row) ==
    /\ row # <<>>
    /\ IsText(row[1])
    /\ contains(MarkerCode, row[1].s) \/ contains(MarkerSchool, row[1].s)
HasValidCode(row) ==
    row # <<>> /\ ~BlankCell(row[1]) /\ ~HasPlaceholder(row[1])
BlankRowP(row) == \A i \in 1..Len(row) : ~IsText(row[i]) \/ row[i].s = <<>>

\* the rows the claims say give a Record
Retained(row) == Len(row) >= 7 /\ ~HasMarker(row) /\ HasValidCode(row)
Kept == SelectSeq(Tail(raw_table.v), Retained)

\* the text of a cell without its outer whitespace, each newline a space
Cleaned(c) == replace(strip(c.s), "\n", " ")

\* every Record stands for the retained row of the same rank
Aligned == Len(structured_data) = Len(Kept)

(* C1: the first row never gives a Record, whatever it holds: the output   *)
(* is that of rows 2..n alone, so putting any other row in its place       *)
(* leaves the output as it is, and n rows give at most n - 1 Records.      *)
C1_FirstRowDiscarded ==
    Returned =>
        /\ Len(structured_data) <= Len(raw_table.v) - 1
        /\ structured_data = for_rows(<<>>, Tail(raw_table.v))
        /\ \A r \in {DataRow("1"), HeaderRow, <<>>} :
            clean_and_structure_data(List(<<r>> \o Tail(raw_table.v))) = structured_data

\* a well-formed data row came first, others followed, and it gave no Record
C1_Witness ==
    /\ Returned
    /\ Retained(raw_table.v[1])
    /\ Len(raw_table.v) = 3
    /\ Len(structured_data) = 2

FullRows ==
    \A k \in 1..Len(raw_table.v) :
        /\ Len(raw_table.v[k]) >= 7
        /\ ~BlankRowP(raw_table.v[k])
        /\ ~HasMarker(raw_table.v[k])

\* the rows are those of Records: each has a valid code, too
NormalizedRows ==
    FullRows /\ \A k \in 1..Len(raw_table.v) : HasValidCode(raw_table.v[k])

(* C3 as claimed: on full rows, none blank and none a header, one Record   *)
(* per row of the input.  (Stated for rows that each have a valid code,    *)
(* the rows of an already normalized table, where the claim fails by the   *)
(* first row alone.)                                                       *)
C3_OnePerRow ==
    (Returned /\ NormalizedRows) => Len(structured_data) = Len(raw_table.v)

(* C3 as amended: on full rows, none blank, none a header and each with a  *)
(* valid code, one Record per row other than the first, in the order of    *)
(* the rows: n rows give n - 1 Records.                                    *)
C3_OnePerRowAfterFirst ==
    (Returned /\ NormalizedRows) =>
        /\ Len(structured_data) = Len(raw_table.v) - 1
        /\ \A j \in 1..Len(structured_data) :
            j + 1 <= Len(raw_table.v) =>
                structured_data[j][Field(1)] = Str(Cleaned(raw_table.v[j + 1][1]))

\* three such rows with different codes gave the Records of the last two
C3_Witness ==
    /\ Returned
    /\ NormalizedRows
    /\ Len(raw_table.v) = 3
    /\ raw_table.v[2][1] # raw_table.v[3][1]
    /\ Len(structured_data) = 2

\* the fields that are coerced to numbers, by position (1-based)
NumericFields == {5, 6}

\* v is the text of cell c from position off + 1 on, each newline a space,
\* and c holds only whitespace around it
CleanedFrom(c, v, off) ==
    /\ off + Len(v) <= Len(c)
    /\ \A p \in 1..off : c[p] \in Whitespace
    /\ \A p \in (off + Len(v) + 1)..Len(c) : c[p] \in Whitespace
    /\ \A p \in 1..Len(v) : v[p] = IF c[off + p] = "\n" THEN " " ELSE c[off + p]

TwoSpaces == <<"tai", "bei", " ", " ", "da", "xue">>
OneSpace == <<"tai", "bei", " ", "da", "xue">>

(* C4 as claimed: the cell "tai bei", space, newline, "da xue" is stored   *)
(* with one single space between the two words.                            *)
C4_OneSingleSpace ==
    (Returned /\ Aligned) =>
        \A j \in 1..Len(Kept) : \A i \in 1..7 :
            Kept[j][i] = Str(TaibeiDaxue) =>
                structured_data[j][Field(i)] = Str(OneSpace)

(* C4 as amended: a present cell is stored without its leading and         *)
(* trailing whitespace and with each embedded newline replaced by one      *)
(* space, the other characters (spaces too) kept as they are, so that      *)
(* "tai bei", space, newline, "da xue" is stored with two spaces; a cell   *)
(* that is null or holds only whitespace is stored as null.                *)
C4_NewlineToSpace ==
    (Returned /\ Aligned) =>
        \A j \in 1..Len(Kept) : \A i \in 1..7 :
            LET c == Kept[j][i]
                v == structured_data[j][Field(i)]
            IN  /\ BlankCell(c) => v = None
                /\ (~BlankCell(c) /\ ~HasPlaceholder(c) /\ i \notin NumericFields) =>
                       v.t = "str"
                /\ v.t = "str" =>
                    /\ v.s # <<>>
                    /\ v.s[1] \notin Whitespace
                    /\ v.s[Len(v.s)] \notin Whitespace
                    /\ \A p \in 1..Len(v.s) : v.s[p] # "\n"
                    /\ \E off \in 0..Len(c.s) : CleanedFrom(c.s, v.s, off)
                /\ c = Str(TaibeiDaxue) => v = Str(TwoSpaces)

\* the example cell was read in the institution position and stored with
\* its two spaces
C4_Witness ==
    /\ Returned
    /\ Len(structured_data) = 1
    /\ raw_table.v[2] = RowWith(Str(TaibeiDaxue), 1)
    /\ structured_data[1][Field(2)] = Str(TwoSpaces)

(* C5: in the two numeric fields a value with a decimal point that float() *)
(* accepts is stored as that float, a value without one that int() accepts *)
(* as that integer ("120" as 120, "450.5" as 450.5), and any other value   *)
(* as its cleaned text; the other five fields hold a string or null.       *)
C5_NumericCoercion ==
    (Returned /\ Aligned) =>
        \A j \in 1..Len(Kept) : \A i \in 1..7 :
            LET c == Kept[j][i]
                v == structured_data[j][Field(i)]
            IN  /\ i \notin NumericFields => v.t \in {"str", "None"}
                /\ (i \in NumericFields /\ ~BlankCell(c) /\ ~HasPlaceholder(c)) =>
                    /\ v.t \in {"float", "int", "str"}
                    /\ v.t = "float" <=>
                         (contains(<<".">>, Cleaned(c)) /\ IsFloatLiteral(Cleaned(c)))
                    /\ v.t = "int" <=>
                         (~contains(<<".">>, Cleaned(c)) /\ IsIntLiteral(Cleaned(c)))
                    /\ v.t = "float" => v = FloatValue(Cleaned(c))
                    /\ v.t = "int" => v = PyInt(IntValue(Cleaned(c)))
                    /\ v.t = "str" => v = Str(Cleaned(c))
                /\ (i = 5 /\ c = Str(<<"1", "2", "0">>)) => v = [t |-> "int", v |-> 120]
                /\ (i \in NumericFields /\ c = Str(<<"4", "5", "0", ".", "5">>)) =>
                       v = [t |-> "float", m |-> 4505, e |-> -1]
                /\ (i \in NumericFields /\ c = Str(<<".", "5", "0">>)) =>
                       v = [t |-> "float", m |-> 5, e |-> -1]
                /\ (i = 6 /\ c = Str(<<"tong", "fen", "can", "zhuo", "di", "3", "lei">>)) =>
                       v = c

\* "450.5" was read in the admitted-count position and stored as a float
C5_Witness ==
    /\ Returned
    /\ Len(structured_data) = 1
    /\ raw_table.v[2] = RowWith(Str(<<"4", "5", "0", ".", "5">>), 4)
    /\ structured_data[1][Field(5)] = [t |-> "float", m |-> 4505, e |-> -1]

(* C6: a cell whose text holds the five hyphens is stored as null in each  *)
(* of the 7 fields, never as a string and never as a number; with the      *)
(* five hyphens in the code position the row gives no Record.              *)
C6_PlaceholderIsNull ==
    Returned =>
        /\ Aligned =>
            \A j \in 1..Len(Kept) : \A i \in 1..7 :
                HasPlaceholder(Kept[j][i]) => structured_data[j][Field(i)] = None
        /\ Len(structured_data) <=
             Cardinality({k \in 2..Len(raw_table.v) :
                            raw_table.v[k] = <<>> \/ ~HasPlaceholder(raw_table.v[k][1])})
        /\ \A j \in 1..Len(structured_data) : \A i \in 1..7 :
              structured_data[j][Field(i)].t = "str" =>
                  ~contains(Placeholder, structured_data[j][Field(i)].s)

\* five hyphens inside a longer text of the program-name field became null
C6_Witness ==
    /\ Returned
    /\ Len(structured_data) = 1
    /\ raw_table.v[2] = RowWith(Str(<<"a">> \o Placeholder \o <<"1">>), 2)
    /\ structured_data[1][Field(3)] = None

-----------------------------------------------------------------------------
(* The claims about the whole run *)

Logged(stage) == \E i \in 1..Len(log) : log[i] = stage

\* download_and_parse_pdf has returned
Extracted == pc \in {"check_raw", "check_structured", "report", "done"}

\* the codes of the Records, in order
Codes == [j \in 1..Len(structured_data) |-> structured_data[j][Field(1)].s]

EightCodes ==
    << <<"0", "0", "1">>, <<"0", "0", "2">>, <<"0", "0", "3">>, <<"0", "0", "4">>,
       <<"0", "0", "5">>, <<"0", "0", "6">>, <<"0", "0", "7">>, <<"0", "0", "8">> >>

\* the rows a page yields: those the ruled-line strategy finds, or, when it
\* finds no table, those the text-alignment strategy finds
Yield(page) ==
    IF page.lines.t = "list" THEN page.lines.v
    ELSE IF page.lines = None /\ page.text.t = "list" THEN page.text.v
    ELSE <<>>
PageRaises(page) ==
    page.lines = Raises \/ (page.lines = None /\ page.text = Raises)
NoTable(page) == ~PageRaises(page) /\ Yield(page) = <<>>

\* page 1 a header and 5 data rows, page 2 the header h and 3 data rows,
\* page 3 no table
Scenario(h) ==
    /\ pdf.openable
    /\ Len(pdf.pages) = 3
    /\ Yield(pdf.pages[1]) = FirstPageTable
    /\ Yield(pdf.pages[2]) = NextPageTable(h)
    /\ NoTable(pdf.pages[3])

\* the repeated headers that hold the school marker in some cell, and those
\* that hold a marker in their first cell
SchoolHeaders ==
    {h \in {HeaderRow, HeaderSchoolFirst, HeaderWrapped} :
        \E i \in 1..Len(h) : IsText(h[i]) /\ contains(MarkerSchool, h[i].s)}
MarkedHeaders == {h \in SchoolHeaders : HasMarker(h)}

(* C7 as claimed: in the scenario, whenever the repeated header of page 2  *)
(* holds the school marker, exactly 8 Records, those of the data rows in   *)
(* order.                                                                  *)
C7_EightRecords ==
    \A h \in SchoolHeaders :
        (Returned /\ Scenario(h)) => Codes = EightCodes

(* C7 as amended: in the scenario, whenever the first cell of the repeated *)
(* header of page 2 holds one of the two markers, exactly 8 Records, those *)
(* of the data rows in order; and in every run the Records are those of    *)
(* the retained rows, in the order of the rows.                            *)
C7_EightRecordsFirstCellMarker ==
    Returned =>
        /\ \A h \in MarkedHeaders : Scenario(h) => Codes = EightCodes
        /\ Len(structured_data) = Len(Kept)
        /\ \A j \in 1..Len(structured_data) :
            \A i \in 1..7 :
                j <= Len(Kept) =>
                    structured_data[j][Field(i)] = field_value(Kept[j][i], Field(i))

\* the scenario with the school marker in the header's first cell, run to
\* its 8 Records
C7_Witness ==
    /\ Returned
    /\ Scenario(HeaderSchoolFirst)
    /\ Len(structured_data) = 8

(* C8: an error is terminal: after a NetworkError only the fetch has been  *)
(* started, after a ParseError only the fetch and the extraction, and      *)
(* after an IOError nothing follows the write and the file is not          *)
(* complete.                                                               *)
C8_ErrorsAreTerminal ==
    /\ error = "NetworkError" => log = <<"fetch">>
    /\ error = "ParseError" => log = <<"fetch", "extract">>
    /\ error = "IOError" =>
        /\ log = <<"fetch", "extract", "normalize", "write">>
        /\ file # "complete"

\* the rows of the pages that yield a table, in page order
RECURSIVE RowsOf(_)
RowsOf(pages) ==
    IF pages = <<>> THEN <<>>
    ELSE Yield(Head(pages)) \o RowsOf(Tail(pages))

SomePageRaises == \E k \in 1..Len(pdf.pages) : PageRaises(pdf.pages[k])

(* C9 as claimed: after a successful fetch the Extractor returns no value  *)
(* only for a document that cannot be opened or when it has extracted no   *)
(* row, and otherwise the rows of all the pages that yield a table: rows   *)
(* once gathered are not lost.                                             *)
C9_NoValueOnlyIfUnopenableOrEmpty ==
    (Extracted /\ response = "ok") =>
        raw_table = IF ~pdf.openable \/ all_rows = <<>>
                    THEN None
                    ELSE List(RowsOf(pdf.pages))

(* C9 as amended: after a successful fetch the Extractor returns no value  *)
(* only for a document that cannot be opened, or on a page of which the    *)
(* extraction raises an error (the rows of the earlier pages are then      *)
(* lost), or that yields no row on any page; otherwise it returns the rows *)
(* of all the pages that yield a table, in page order, a page without a    *)
(* table being skipped.                                                    *)
C9_NoValueAlsoIfPageRaises ==
    (Extracted /\ response = "ok") =>
        raw_table = IF ~pdf.openable \/ SomePageRaises \/ RowsOf(pdf.pages) = <<>>
                    THEN None
                    ELSE List(RowsOf(pdf.pages))

\* a page without a table between two pages with one: the rows of both
C9_Witness ==
    /\ Extracted
    /\ Len(pdf.pages) = 3
    /\ Yield(pdf.pages[1]) = FirstPageTable
    /\ NoTable(pdf.pages[2])
    /\ Yield(pdf.pages[3]) = JunkTable
    /\ raw_table = List(FirstPageTable \o JunkTable)

Stages == <<"fetch", "extract", "normalize", "write", "report">>

(* C10: the stages start in order and each at most once; the extraction    *)
(* starts only after a successful fetch, the Normalizer only on at least   *)
(* one row, the Writer only on at least one Record; a finished run has     *)
(* fetched exactly once; a run whose Normalizer returned no Record ends    *)
(* without a write, without a file and without any of the three errors.    *)
C10_StagesForwardOnce ==
    /\ Len(log) <= Len(Stages)
    /\ log = SubSeq(Stages, 1, Len(log))
    /\ Logged("extract") => response = "ok"
    /\ Logged("normalize") => (raw_table.t = "list" /\ Len(raw_table.v) >= 1)
    /\ Logged("write") => Len(structured_data) >= 1
    /\ pc = "done" => Cardinality({i \in 1..Len(log) : log[i] = "fetch"}) = 1
    /\ (pc = "done" /\ Logged("normalize") /\ structured_data = <<>>) =>
        /\ ~Logged("write")
        /\ file = "absent"
        /\ error = "none"

\* a run on rows that are all header, blank, short or without code ended
\* after the Normalizer
C10_Witness ==
    /\ pc = "done"
    /\ log = <<"fetch", "extract", "normalize">>
    /\ structured_data = <<>>
    /\ raw_table = List(JunkTable)

====
